---- MODULE Spec2Model ----
(***************************************************************************)
(* FolderBackup: one-way mirroring of an input tree into an output tree.   *)
(* The model follows src/main.go (the incremental variant that keeps       *)
(* time.txt).  A run is cut into the steps between which the file system   *)
(* and the clock may change: start, input scan, output scan, map + log,    *)
(* one step per orphan, one step per input record, the time.txt write.     *)
(* SpecRoots is the same program with roots that are equal or nested, and  *)
(* SpecTimer is the timer-loop variant of src/unnamed/part_000.            *)
(*                                                                         *)
(* Strings are sequences of tokens: the name "a.txt" is <<"a",".","txt">>, *)
(* a path is a sequence of names.  Instants are clock ticks, SubSec ticks  *)
(* to the second; both time layouts the program formats with have a        *)
(* resolution of one second.                                               *)
(***************************************************************************)
EXTENDS Integers, Sequences, FiniteSets, TLC

VARIABLES
    fs,                 \* the file system: absolute path -> entry
    now,                \* the wall clock when it was last read, in ticks
    timeTxt,            \* ./time.txt: NoFile or its content
    errorLog,           \* file_error.log: the lines appended so far
    pc,                 \* position of the process in main
    processStart,       \* main: processStart
    lastRun,            \* main: lastRun (Nil or an instant)
    filesInInputPath,   \* main: filesInInputPath
    filesInOutputPath,  \* main: filesInOutputPath
    inFilesMap,         \* main: inFilesMap, relative path -> filesData
    i,                  \* index of the range loop in progress
    runs,               \* number of runs started
    events,             \* number of user changes and injected failures so far
    hist,               \* record of the current run (history, not program state)
    config,             \* path.json: the two roots
    outFilesMap,        \* timer-loop variant, process: outFilesMap
    ticker,             \* timer-loop variant, main: the ticks waiting in ticker.C
    mainPc,             \* timer-loop variant: position of main
    active              \* timer-loop variant: calls of process begun and not returned

\* what the timer-loop variant (src/unnamed/part_000) has besides
tvars == <<outFilesMap, ticker, mainPc, active>>

vars == <<fs, now, timeTxt, errorLog, pc, processStart, lastRun, filesInInputPath,
          filesInOutputPath, inFilesMap, i, runs, events, hist, config, tvars>>

----------------------------------------------------------------------------
(* Bounds of the model *)

SubSec == 3
MaxTime == 4
MaxRuns == 2
MaxEvents == 1

----------------------------------------------------------------------------
(* Names, paths and the time layouts *)

Nil == -1
NoFile == <<"ENOENT">>
Garbage == <<>>

NameA == <<"a", ".", "txt">>
NameD == <<"d">>
NameTrash == <<"trash">>
NameZ == <<"z">>

\* the roots path.json names; DisjointRoots is the configuration of Spec
DisjointRoots == [InputPath |-> <<(<<"in">>)>>, OutputPath |-> <<(<<"out">>)>>]
EqualRoots == [InputPath |-> <<(<<"in">>)>>, OutputPath |-> <<(<<"in">>)>>]
OutputInInput == [InputPath |-> <<(<<"in">>)>>, OutputPath |-> <<(<<"in">>), NameD>>]
InputInOutput == [InputPath |-> <<(<<"out">>), NameD>>, OutputPath |-> <<(<<"out">>)>>]
Configs == {DisjointRoots, EqualRoots, OutputInInput, InputInOutput}

InputPath == config.InputPath
OutputPath == config.OutputPath
trashPath == OutputPath \o <<NameTrash>>

\* byte order of the tokens names are made of ("." sorts before the letters)
TokenOrder == <<".", "a", "d", "trash", "txt", "z">>

TokenRank(t) ==
    IF \E k \in 1..Len(TokenOrder) : TokenOrder[k] = t
    THEN CHOOSE k \in 1..Len(TokenOrder) : TokenOrder[k] = t
    ELSE 0

RECURSIVE NameLess(_, _)
NameLess(a, b) ==
    IF b = <<>> THEN FALSE
    ELSE IF a = <<>> THEN TRUE
    ELSE IF TokenRank(Head(a)) # TokenRank(Head(b))
         THEN TokenRank(Head(a)) < TokenRank(Head(b))
         ELSE NameLess(Tail(a), Tail(b))

Base(path) == path[Len(path)]
Dir(path) == SubSeq(path, 1, Len(path) - 1)
Join(a, b) == a \o b
Rel(basepath, targpath) == SubSeq(targpath, Len(basepath) + 1, Len(targpath))
IsPrefix(p, q) == Len(p) <= Len(q) /\ SubSeq(q, 1, Len(p)) = p
IsUnder(p, q) == Len(p) < Len(q) /\ IsPrefix(p, q)

\* filepath.Ext: the suffix beginning at the final dot, empty if there is none
Ext(name) ==
    IF \E k \in 1..Len(name) : name[k] = "."
    THEN LET k == CHOOSE j \in 1..Len(name) :
                      /\ name[j] = "."
                      /\ \A m \in (j+1)..Len(name) : name[m] # "."
         IN SubSeq(name, k, Len(name))
    ELSE <<>>

TrimSuffix(s, suffix) ==
    IF Len(suffix) <= Len(s) /\ SubSeq(s, Len(s) - Len(suffix) + 1, Len(s)) = suffix
    THEN SubSeq(s, 1, Len(s) - Len(suffix))
    ELSE s

\* Format("20060102150405"): whole seconds, the fraction is dropped
FormatStamp(t) == ToString(t \div SubSec)

\* mutant of FormatRFC3339: the instant is rounded up to the next second
FormatRFC3339Up(t) == <<"T", (t + SubSec - 1) \div SubSec>>

\* Format(time.RFC3339): whole seconds, the fraction is dropped
FormatRFC3339(t) == <<"T", t \div SubSec>>

\* time.Parse(time.RFC3339, s): the instant, or an error
ParseRFC3339(s) ==
    IF Len(s) = 2 /\ s[1] = "T"
    THEN [err |-> FALSE, date |-> s[2] * SubSec]
    ELSE [err |-> TRUE, date |-> 0]

\* mutant of After: the comparison is not strict
AfterOrEqual(t, u) == t >= u

\* Time.After
After(t, u) == t > u

----------------------------------------------------------------------------
(* The file system *)

DirEntry == [isDir |-> TRUE, content |-> 0, modTime |-> 0]
FileEntry(c, t) == [isDir |-> FALSE, content |-> c, modTime |-> t]

Exists(f, p) == p \in DOMAIN f
IsDirAt(f, p) == Exists(f, p) /\ f[p].isDir
IsFileAt(f, p) == Exists(f, p) /\ ~f[p].isDir

Prefixes(p) == { SubSeq(p, 1, k) : k \in 1..Len(p) }

\* os.Stat(dir) fails with an error for which os.IsNotExist is true
StatNotExist(f, dir) ==
    /\ ~Exists(f, dir)
    /\ \A q \in Prefixes(dir) : ~IsFileAt(f, q)

\* os.MkdirAll(dir) when it succeeds
MkdirAll(f, dir) ==
    [p \in DOMAIN f \cup Prefixes(dir) |-> IF p \in DOMAIN f THEN f[p] ELSE DirEntry]

Put(f, p, e) == [q \in DOMAIN f \cup {p} |-> IF q = p THEN e ELSE f[q]]
Remove(f, p) == [q \in DOMAIN f \ {p} |-> f[q]]

----------------------------------------------------------------------------
(* The tree scanner *)

filesData(name, location, modTime, new) ==
    [Name |-> name, Location |-> location, ModTime |-> modTime, New |-> new]

\* visitFileInfos(path, info, err, lastRun): err is a failed lstat or a
\* failed read of the directory; info is the entry f holds at path
visitFileInfos(f, path, err, lastRunArg) ==
    IF err THEN [ok |-> FALSE, data |-> <<>>]
    ELSE IF f[path].isDir THEN [ok |-> FALSE, data |-> <<>>]
    ELSE [ok |-> TRUE,
          data |-> <<filesData(Base(path), path, f[path].modTime,
                               lastRunArg = Nil \/ After(f[path].modTime, lastRunArg))>>]

\* mutant of walkFn: the trash folder is not skipped
walkFnNoSkip(f, path, err, lastRunArg) ==
    LET v == visitFileInfos(f, path, err, lastRunArg)
    IN [ret |-> "nil", files |-> IF v.ok THEN v.data ELSE <<>>]

\* the function gatherFiles hands to filepath.Walk: what it returns and
\* what it appends to files
walkFn(f, path, err, lastRunArg) ==
    IF Base(path) = NameTrash
    THEN [ret |-> "SkipDir", files |-> <<>>]
    ELSE LET v == visitFileInfos(f, path, err, lastRunArg)
         IN [ret |-> "nil", files |-> IF v.ok THEN v.data ELSE <<>>]

Children(f, path) == { p \in DOMAIN f : Len(p) = Len(path) + 1 /\ IsPrefix(path, p) }

\* readDirNames: the entries of a directory in lexical order
RECURSIVE SortPaths(_)
SortPaths(S) ==
    IF S = {} THEN <<>>
    ELSE LET m == CHOOSE x \in S : \A y \in S : ~NameLess(Base(y), Base(x))
         IN <<m>> \o SortPaths(S \ {m})

\* filepath.Walk below path.  bad holds the entries whose lstat, or whose
\* directory read, fails during this walk.
RECURSIVE walk(_, _, _, _), walkEntries(_, _, _, _, _)
walk(f, path, bad, lastRunArg) ==
    IF path \in bad \/ ~Exists(f, path)
    THEN walkFn(f, path, TRUE, lastRunArg)
    ELSE IF ~f[path].isDir
    THEN walkFn(f, path, FALSE, lastRunArg)
    ELSE LET first == walkFn(f, path, FALSE, lastRunArg)
         IN IF first.ret # "nil" THEN first
            ELSE walkEntries(f, SortPaths(Children(f, path)), bad, lastRunArg, first.files)

walkEntries(f, entries, bad, lastRunArg, acc) ==
    IF entries = <<>> THEN [ret |-> "nil", files |-> acc]
    ELSE LET p == Head(entries)
             r == walk(f, p, bad, lastRunArg)
         IN IF r.ret = "SkipDir" /\ (p \in bad \/ f[p].isDir)
            THEN walkEntries(f, Tail(entries), bad, lastRunArg, acc \o r.files)
            ELSE IF r.ret = "SkipDir"
            THEN [ret |-> "SkipDir", files |-> acc]
            ELSE walkEntries(f, Tail(entries), bad, lastRunArg, acc \o r.files)

\* gatherFiles(path, lastRun): Walk turns a SkipDir of the root into nil and
\* the callback returns nothing else, so err is never set
gatherFiles(f, path, bad, lastRunArg) ==
    LET r == walk(f, path, bad, lastRunArg)
    IN [files |-> r.files, err |-> ~(r.ret \in {"nil", "SkipDir"})]

----------------------------------------------------------------------------
(* The steps of main *)

\* n more failures of the environment happen in this step
Fault(n) == events + n <= MaxEvents /\ events' = events + n
Cost(failed) == IF failed THEN 1 ELSE 0

\* the clock is read, d ticks after it was last read
Elapse(d) == now + d <= MaxTime /\ now' = now + d

\* createIfNotExist(dir): mkOk is whether os.MkdirAll succeeds if it is called
createIfNotExist(f, dir, mkOk) ==
    IF StatNotExist(f, dir)
    THEN IF mkOk THEN [exit |-> FALSE, fs |-> MkdirAll(f, dir)]
                 ELSE [exit |-> TRUE, fs |-> f]
    ELSE [exit |-> FALSE, fs |-> f]

\* os.Rename(src, dest) can succeed
CanRename(f, src, dest) ==
    /\ IsFileAt(f, src)
    /\ IsDirAt(f, Dir(dest))
    /\ ~IsDirAt(f, dest)

\* moveToTrash(src, dest) when os.Rename succeeds: dest is replaced if present
moveToTrash(f, src, dest) == Put(Remove(f, src), dest, f[src])

\* copyFile(src, dest): os.Open and os.Create can succeed
CanCopy(f, src, dest) ==
    /\ IsFileAt(f, src)
    /\ IsDirAt(f, Dir(dest))
    /\ ~IsDirAt(f, dest)

\* copyFile(src, dest) when io.Copy succeeds, at instant t; os.Create has
\* truncated dest before io.Copy reads src, so a file copied onto itself is
\* left empty
copyFile(f, src, dest, t) ==
    Put(f, dest, FileEntry(IF src = dest THEN 0 ELSE f[src].content, t))

\* copyFile(src, dest) when io.Copy fails after os.Create truncated dest
copyFileCut(f, dest, t) == Put(f, dest, FileEntry(0, t))

\* mutant of MapByRel: the key is the base name of the file
MapByName(root, files) ==
    [r \in { <<files[k].Name>> : k \in 1..Len(files) } |->
        files[CHOOSE k \in 1..Len(files) :
                 /\ <<files[k].Name>> = r
                 /\ \A m \in (k+1)..Len(files) : <<files[m].Name>> # r]]

\* lines 130-133: the map of the input records by relative path, the last
\* record of a key wins
MapByRel(root, files) ==
    [r \in { Rel(root, files[k].Location) : k \in 1..Len(files) } |->
        files[CHOOSE k \in 1..Len(files) :
                 /\ Rel(root, files[k].Location) = r
                 /\ \A m \in (k+1)..Len(files) : Rel(root, files[m].Location) # r]]

\* lines 145-149: where an orphan record is moved to
newName(output, start) ==
    LET fileExtension == Ext(output.Name)
        fileName == TrimSuffix(output.Name, fileExtension)
        timeStamp == <<".", FormatStamp(start)>>
    IN fileName \o timeStamp \o fileExtension

newPath(output, start) == Join(trashPath, <<newName(output, start)>>)

\* lines 109-116: lastRun from ./time.txt
ReadLastRun(txt) ==
    IF txt = NoFile THEN Nil
    ELSE LET d == ParseRFC3339(txt) IN IF d.err THEN Nil ELSE d.date

\* the part of f at and below root
SubTree(f, root) == [p \in { q \in DOMAIN f : IsPrefix(root, q) } |-> f[p]]

\* History of the current run: the operations it attempted on files (ops,
\* with the content of the source before the operation), why it exited
\* (fatal), time.txt as the run found it (found), the trees as the two scans
\* saw them and the entries that failed in each; and of the runs before it:
\* the start of the last run that finished both loops (completed), the start
\* of the last run whose write of time.txt succeeded (written), whether the
\* previous run ended normally, its start, the input tree it scanned and the
\* files whose copy it attempted and failed.
Op(kind, src, dest, content, ok) ==
    [op |-> kind, src |-> src, dest |-> dest, content |-> content, ok |-> ok]

NewHist(found, h, prevDone, prevStart) ==
    [ops |-> <<>>, fatal |-> "", found |-> found,
     completed |-> h.completed, written |-> h.written,
     prevDone |-> prevDone, prevStart |-> prevStart, prevInFs |-> h.inFs,
     prevFailed |-> { h.ops[k].src : k \in { j \in 1..Len(h.ops) :
                                                h.ops[j].op = "copy" /\ ~h.ops[j].ok } },
     inScanned |-> FALSE, inFs |-> <<>>, inBad |-> {},
     outScanned |-> FALSE, outFs |-> <<>>, outBad |-> {}]

InitHist ==
    NewHist(NoFile, [completed |-> Nil, written |-> Nil, inFs |-> <<>>, ops |-> <<>>],
            FALSE, Nil)

\* lines 93-116
Start(d, mkOut, mkTrash) ==
    /\ pc \in {"idle", "done", "fatal"}
    /\ runs < MaxRuns
    /\ ~mkOut => StatNotExist(fs, OutputPath)
    /\ ~mkTrash => mkOut /\ StatNotExist(fs, trashPath)
    /\ Fault(Cost(~mkOut) + Cost(~mkTrash))
    /\ runs' = runs + 1
    /\ Elapse(d)
    /\ processStart' = now'
    /\ filesInInputPath' = <<>>
    /\ filesInOutputPath' = <<>>
    /\ inFilesMap' = <<>>
    /\ i' = 1
    /\ LET c1 == createIfNotExist(fs, OutputPath, mkOut)
           c2 == createIfNotExist(c1.fs, trashPath, mkTrash)
           h == NewHist(timeTxt, hist, pc = "done", processStart)
       IN IF c1.exit \/ c2.exit
          THEN /\ fs' = c1.fs
               /\ pc' = "fatal"
               /\ lastRun' = Nil
               /\ hist' = [h EXCEPT !.fatal = "mkdirRoot"]
          ELSE /\ fs' = c2.fs
               /\ pc' = "scanIn"
               /\ lastRun' = ReadLastRun(timeTxt)
               /\ hist' = h
    /\ UNCHANGED <<timeTxt, errorLog>>

\* the entries of the tree at root whose access may fail during a walk
Scannable(f, root) == { p \in DOMAIN f : IsPrefix(root, p) } \cup {root}

\* lines 118-121
ScanInput(bad) ==
    /\ pc = "scanIn"
    /\ Fault(Cardinality(bad))
    /\ LET g == gatherFiles(fs, InputPath, bad, lastRun)
       IN /\ filesInInputPath' = g.files
          /\ pc' = IF g.err THEN "fatal" ELSE "scanOut"
    /\ hist' = [hist EXCEPT !.inScanned = TRUE, !.inFs = SubTree(fs, InputPath),
                            !.inBad = bad]
    /\ UNCHANGED <<fs, now, timeTxt, errorLog, processStart, lastRun,
                   filesInOutputPath, inFilesMap, i, runs>>

\* lines 123-126
ScanOutput(bad) ==
    /\ pc = "scanOut"
    /\ Fault(Cardinality(bad))
    /\ LET g == gatherFiles(fs, OutputPath, bad, Nil)
       IN /\ filesInOutputPath' = g.files
          /\ pc' = IF g.err THEN "fatal" ELSE "openLog"
    /\ hist' = [hist EXCEPT !.outScanned = TRUE, !.outFs = SubTree(fs, OutputPath),
                            !.outBad = bad]
    /\ UNCHANGED <<fs, now, timeTxt, errorLog, processStart, lastRun,
                   filesInInputPath, inFilesMap, i, runs>>

\* lines 128-140
OpenLog(ok) ==
    /\ pc = "openLog"
    /\ Fault(Cost(~ok))
    /\ inFilesMap' = MapByRel(InputPath, filesInInputPath)
    /\ pc' = IF ok THEN "trash" ELSE "fatal"
    /\ hist' = IF ok THEN hist ELSE [hist EXCEPT !.fatal = "openLog"]
    /\ i' = 1
    /\ UNCHANGED <<fs, now, timeTxt, errorLog, processStart, lastRun,
                   filesInInputPath, filesInOutputPath, runs>>

Line(msg, name) == <<msg, name>>

\* mutant of TrashStep: a failed move is logged and ends the run
TrashStepAbort(mkOk, mvOk) ==
    /\ pc = "trash"
    /\ i <= Len(filesInOutputPath)
    /\ LET output == filesInOutputPath[i]
           relativePath == Rel(OutputPath, output.Location)
           dest == newPath(output, processStart)
           c == createIfNotExist(fs, Dir(dest), mkOk)
           moved == mvOk /\ CanRename(c.fs, output.Location, dest)
       IN /\ ~mkOk => relativePath \notin DOMAIN inFilesMap /\ StatNotExist(fs, Dir(dest))
          /\ ~mvOk => /\ relativePath \notin DOMAIN inFilesMap
                      /\ mkOk
                      /\ CanRename(c.fs, output.Location, dest)
          /\ Fault(Cost(~mkOk) + Cost(~mvOk))
          /\ IF relativePath \in DOMAIN inFilesMap
             THEN /\ i' = i + 1
                  /\ UNCHANGED <<fs, errorLog, pc, hist>>
             ELSE IF c.exit
             THEN /\ pc' = "fatal"
                  /\ hist' = [hist EXCEPT !.fatal = "mkdirTrash"]
                  /\ UNCHANGED <<fs, errorLog, i>>
             ELSE /\ i' = i + 1
                  /\ fs' = IF moved THEN moveToTrash(c.fs, output.Location, dest) ELSE c.fs
                  /\ errorLog' = IF moved THEN errorLog
                                 ELSE Append(errorLog,
                                             Line("Failed moving file to trash: ", output.Name))
                  /\ hist' = [hist EXCEPT
                                !.ops = Append(@, Op("move", output.Location, dest,
                                                 IF IsFileAt(fs, output.Location)
                                                 THEN fs[output.Location].content ELSE 0,
                                                 moved)),
                                !.fatal = IF moved THEN @ ELSE "moveToTrash"]
                  /\ pc' = IF moved THEN pc ELSE "fatal"
    /\ UNCHANGED <<now, timeTxt, processStart, lastRun, filesInInputPath,
                   filesInOutputPath, inFilesMap, runs>>

\* lines 142-156, one iteration of the loop over filesInOutputPath
TrashStep(mkOk, mvOk) ==
    /\ pc = "trash"
    /\ i <= Len(filesInOutputPath)
    /\ LET output == filesInOutputPath[i]
           relativePath == Rel(OutputPath, output.Location)
           dest == newPath(output, processStart)
           c == createIfNotExist(fs, Dir(dest), mkOk)
           moved == mvOk /\ CanRename(c.fs, output.Location, dest)
       IN /\ ~mkOk => relativePath \notin DOMAIN inFilesMap /\ StatNotExist(fs, Dir(dest))
          /\ ~mvOk => /\ relativePath \notin DOMAIN inFilesMap
                      /\ mkOk
                      /\ CanRename(c.fs, output.Location, dest)
          /\ Fault(Cost(~mkOk) + Cost(~mvOk))
          /\ IF relativePath \in DOMAIN inFilesMap
             THEN /\ i' = i + 1
                  /\ UNCHANGED <<fs, errorLog, pc, hist>>
             ELSE IF c.exit
             THEN /\ pc' = "fatal"
                  /\ hist' = [hist EXCEPT !.fatal = "mkdirTrash"]
                  /\ UNCHANGED <<fs, errorLog, i>>
             ELSE /\ i' = i + 1
                  /\ fs' = IF moved THEN moveToTrash(c.fs, output.Location, dest) ELSE c.fs
                  /\ errorLog' = IF moved THEN errorLog
                                 ELSE Append(errorLog,
                                             Line("Failed moving file to trash: ", output.Name))
                  /\ hist' = [hist EXCEPT
                                !.ops = Append(@, Op("move", output.Location, dest,
                                                 IF IsFileAt(fs, output.Location)
                                                 THEN fs[output.Location].content ELSE 0,
                                                 moved))]
                  /\ UNCHANGED pc
    /\ UNCHANGED <<now, timeTxt, processStart, lastRun, filesInInputPath,
                   filesInOutputPath, inFilesMap, runs>>

\* mutant of TrashDone: the copy loop begins while orphans remain
TrashDoneEarly ==
    /\ pc = "trash"
    /\ pc' = "copy"
    /\ i' = 1
    /\ UNCHANGED <<fs, now, timeTxt, errorLog, processStart, lastRun, filesInInputPath,
                   filesInOutputPath, inFilesMap, runs, events, hist>>

\* the loop over filesInOutputPath is over
TrashDone ==
    /\ pc = "trash"
    /\ i > Len(filesInOutputPath)
    /\ pc' = "copy"
    /\ i' = 1
    /\ UNCHANGED <<fs, now, timeTxt, errorLog, processStart, lastRun, filesInInputPath,
                   filesInOutputPath, inFilesMap, runs, events, hist>>

\* lines 158-171, one iteration of the loop over filesInInputPath;
\* cp is how copyFile ends when it can open both files
CopyStep(d, mkOk, cp) ==
    /\ pc = "copy"
    /\ i <= Len(filesInInputPath)
    /\ LET input == filesInInputPath[i]
           relativePath == Rel(InputPath, input.Location)
           source == Join(InputPath, relativePath)
           destination == Join(OutputPath, relativePath)
           c == createIfNotExist(fs, Dir(destination), mkOk)
           opened == cp # "fail" /\ CanCopy(c.fs, source, destination)
           copied == opened /\ cp = "ok"
       IN /\ Elapse(d)
          /\ d > 0 => input.New /\ ~c.exit /\ opened
          /\ ~mkOk => input.New /\ StatNotExist(fs, Dir(destination))
          /\ cp # "ok" => /\ input.New
                          /\ mkOk
                          /\ CanCopy(c.fs, source, destination)
          /\ Fault(Cost(~mkOk) + Cost(cp # "ok"))
          /\ IF ~input.New
             THEN /\ i' = i + 1
                  /\ UNCHANGED <<fs, errorLog, pc, hist>>
             ELSE IF c.exit
             THEN /\ pc' = "fatal"
                  /\ hist' = [hist EXCEPT !.fatal = "mkdirCopy"]
                  /\ UNCHANGED <<fs, errorLog, i>>
             ELSE /\ i' = i + 1
                  /\ fs' = IF copied THEN copyFile(c.fs, source, destination, now')
                           ELSE IF opened THEN copyFileCut(c.fs, destination, now')
                           ELSE c.fs
                  /\ errorLog' = IF copied THEN errorLog
                                 ELSE Append(errorLog, Line("Failed copying file: ", input.Name))
                  /\ hist' = [hist EXCEPT
                                !.ops = Append(@, Op("copy", source, destination,
                                                 IF IsFileAt(fs, source)
                                                 THEN fs[source].content ELSE 0,
                                                 copied))]
                  /\ UNCHANGED pc
    /\ UNCHANGED <<timeTxt, processStart, lastRun, filesInInputPath,
                   filesInOutputPath, inFilesMap, runs>>

\* the loop over filesInInputPath is over
CopyDone ==
    /\ pc = "copy"
    /\ i > Len(filesInInputPath)
    /\ pc' = "write"
    /\ hist' = [hist EXCEPT !.completed = processStart]
    /\ UNCHANGED <<fs, now, timeTxt, errorLog, processStart, lastRun, filesInInputPath,
                   filesInOutputPath, inFilesMap, i, runs, events>>

\* mutant of WriteTime: the instant written is the one of the last clock
\* reading, not the one captured at the start
WriteTimeNow(w) ==
    /\ pc = "write"
    /\ Fault(Cost(w # "ok"))
    /\ timeTxt' = IF w = "ok" THEN FormatRFC3339(now)
                  ELSE IF w = "write" THEN Garbage
                  ELSE timeTxt
    /\ pc' = IF w = "ok" THEN "done" ELSE "fatal"
    /\ hist' = [hist EXCEPT
                  !.fatal = IF w = "ok" THEN "" ELSE "writeTime",
                  !.written = IF w = "ok" THEN processStart ELSE @,
                  !.ops = Append(@, Op("write", <<>>, <<>>, 0, w = "ok"))]
    /\ UNCHANGED <<fs, now, errorLog, processStart, lastRun, filesInInputPath,
                   filesInOutputPath, inFilesMap, i, runs>>

\* lines 173-176; w is how ioutil.WriteFile ends: "ok", "open" (the file
\* could not be opened) or "write" (opened and truncated, the write failed)
WriteTime(w) ==
    /\ pc = "write"
    /\ Fault(Cost(w # "ok"))
    /\ timeTxt' = IF w = "ok" THEN FormatRFC3339(processStart)
                  ELSE IF w = "write" THEN Garbage
                  ELSE timeTxt
    /\ pc' = IF w = "ok" THEN "done" ELSE "fatal"
    /\ hist' = [hist EXCEPT
                  !.fatal = IF w = "ok" THEN "" ELSE "writeTime",
                  !.written = IF w = "ok" THEN processStart ELSE @,
                  !.ops = Append(@, Op("write", <<>>, <<>>, 0, w = "ok"))]
    /\ UNCHANGED <<fs, now, errorLog, processStart, lastRun, filesInInputPath,
                   filesInOutputPath, inFilesMap, i, runs>>

----------------------------------------------------------------------------
(* The environment: the user changing the input tree *)

\* the relative paths the user's files may have
RelPaths ==
    { <<NameA>>, <<NameZ>>, <<NameD, NameA>>, <<NameTrash>>, <<NameTrash, NameA>> }

\* a regular file can be written at p: no directory is in the way and no
\* regular file is where a directory is needed
CanWrite(f, p) ==
    /\ ~IsDirAt(f, p)
    /\ \A q \in Prefixes(Dir(p)) : ~IsFileAt(f, q)

UserWrite(d, rel, c) ==
    /\ Fault(1)
    /\ Elapse(d)
    /\ LET p == Join(InputPath, rel)
       IN /\ CanWrite(fs, p)
          /\ fs' = Put(MkdirAll(fs, Dir(p)), p, FileEntry(c, now'))
    /\ UNCHANGED <<timeTxt, errorLog, pc, processStart, lastRun, filesInInputPath,
                   filesInOutputPath, inFilesMap, i, runs, hist>>

UserDelete(rel) ==
    /\ Fault(1)
    /\ LET p == Join(InputPath, rel)
       IN /\ IsFileAt(fs, p)
          /\ fs' = Remove(fs, p)
    /\ UNCHANGED <<now, timeTxt, errorLog, pc, processStart, lastRun, filesInInputPath,
                   filesInOutputPath, inFilesMap, i, runs, hist>>

----------------------------------------------------------------------------
(* Initial states and the specification *)

\* the file system holding the regular files at the paths S, all of content c
\* and modification time 0, and the directories above them
RECURSIVE TreeOf(_, _, _)
TreeOf(f, S, c) ==
    IF S = {} THEN f
    ELSE LET p == CHOOSE x \in S : TRUE
         IN TreeOf(Put(MkdirAll(f, Dir(p)), p, FileEntry(c, 0)), S \ {p}, c)

InitInputs ==
    { {}, {<<NameZ>>}, {<<NameA>>, <<NameD, NameA>>}, {<<NameTrash>>, <<NameZ>>},
      {<<NameTrash, NameA>>} }
InitOutputs == { {}, {<<NameA>>, <<NameD, NameA>>} }

\* the state before the first run, but for the roots and the file system
InitRest ==
    /\ now = 0
    /\ timeTxt = NoFile
    /\ errorLog = <<>>
    /\ pc = "idle"
    /\ processStart = 0
    /\ lastRun = Nil
    /\ filesInInputPath = <<>>
    /\ filesInOutputPath = <<>>
    /\ inFilesMap = <<>>
    /\ i = 1
    /\ runs = 0
    /\ events = 0
    /\ hist = InitHist
    /\ outFilesMap = <<>>
    /\ ticker = 0
    /\ mainPc = "first"
    /\ active = 0

\* the trees before the first run: the input files have content 1, the
\* output files content 2
InitFsOf(Ins, Outs) ==
    \E I \in Ins, O \in Outs, root \in BOOLEAN :
       /\ ~root => I = {}
       /\ fs = TreeOf(TreeOf(IF root THEN MkdirAll(<<>>, InputPath) ELSE <<>>,
                          { Join(InputPath, r) : r \in I }, 1),
                   { Join(OutputPath, r) : r \in O }, 2)

Init ==
    /\ config = DisjointRoots
    /\ InitFsOf(InitInputs, InitOutputs)
    /\ InitRest

BadSets(f, root) == SUBSET Scannable(f, root)

\* a step of main.go or of the user
Next ==
    /\ \/ \E d \in 0..MaxTime, mkOut \in BOOLEAN, mkTrash \in BOOLEAN : Start(d, mkOut, mkTrash)
       \/ \E bad \in BadSets(fs, InputPath) : ScanInput(bad)
       \/ \E bad \in BadSets(fs, OutputPath) : ScanOutput(bad)
       \/ \E ok \in BOOLEAN : OpenLog(ok)
       \/ \E mkOk \in BOOLEAN, mvOk \in BOOLEAN : TrashStep(mkOk, mvOk)
       \/ TrashDone
       \/ \E d \in 0..MaxTime, mkOk \in BOOLEAN, cp \in {"ok", "fail", "cut"} : CopyStep(d, mkOk, cp)
       \/ CopyDone
       \/ \E w \in {"ok", "open", "write"} : WriteTime(w)
       \/ \E d \in 0..MaxTime, rel \in RelPaths : UserWrite(d, rel, 3)
       \/ \E rel \in RelPaths : UserDelete(rel)
    /\ UNCHANGED <<config, tvars>>

Spec == Init /\ [][Next]_vars

\* main.go with any of the configurations: the roots disjoint, equal, or
\* one inside the other
InitRoots ==
    /\ config \in Configs
    /\ InitFsOf({{}, {<<NameA>>}}, {{}, {<<NameA>>}})
    /\ InitRest

SpecRoots == InitRoots /\ [][Next]_vars

----------------------------------------------------------------------------
(* The timer-loop variant, src/unnamed/part_000: main calls process once and *)
(* then once for each tick it receives from a ticker.  process is the run    *)
(* of main.go without time.txt: it copies an input file unless the output    *)
(* scan holds a newer file at the same relative path.  Its scans, its log    *)
(* and its trash loop are those of main.go.                                  *)

\* mutant of OutputNewer: an output file as old as the input file is kept
OutputNotOlder(output, input) == AfterOrEqual(output.ModTime, input.ModTime)

\* part_000 line 166
OutputNewer(output, input) == After(output.ModTime, input.ModTime)

\* part_000 lines 102-114: process is called
process(d, mkOut, mkTrash) ==
    /\ runs < MaxRuns
    /\ ~mkOut => StatNotExist(fs, OutputPath)
    /\ ~mkTrash => mkOut /\ StatNotExist(fs, trashPath)
    /\ Fault(Cost(~mkOut) + Cost(~mkTrash))
    /\ runs' = runs + 1
    /\ Elapse(d)
    /\ processStart' = now'
    /\ filesInInputPath' = <<>>
    /\ filesInOutputPath' = <<>>
    /\ inFilesMap' = <<>>
    /\ outFilesMap' = <<>>
    /\ i' = 1
    /\ active' = active + 1
    /\ mainPc' = "process"
    /\ LET c1 == createIfNotExist(fs, OutputPath, mkOut)
           c2 == createIfNotExist(c1.fs, trashPath, mkTrash)
           h == NewHist(timeTxt, hist, pc = "done", processStart)
       IN IF c1.exit \/ c2.exit
          THEN /\ fs' = c1.fs
               /\ pc' = "fatal"
               /\ hist' = [h EXCEPT !.fatal = "mkdirRoot"]
          ELSE /\ fs' = c2.fs
               /\ pc' = "scanIn"
               /\ hist' = h
    /\ UNCHANGED <<timeTxt, errorLog, lastRun, config>>

\* part_000 line 90: the first call
mainLaunch(d, mkOut, mkTrash) ==
    /\ mainPc = "first"
    /\ process(d, mkOut, mkTrash)
    /\ UNCHANGED ticker

\* mutant of mainSelect: the loop does not wait for process to return
mainSelectGo(d, mkOut, mkTrash) ==
    /\ mainPc \in {"select", "process"}
    /\ pc # "fatal"
    /\ ticker = 1
    /\ ticker' = 0
    /\ process(d, mkOut, mkTrash)

\* part_000 lines 92-98: a tick is received and process is called
mainSelect(d, mkOut, mkTrash) ==
    /\ mainPc = "select"
    /\ pc # "fatal"
    /\ ticker = 1
    /\ ticker' = 0
    /\ process(d, mkOut, mkTrash)

\* the ticker of line 86 fires; ticker.C holds one tick, a tick that finds
\* it full is dropped
Tick ==
    /\ mainPc \in {"process", "select"}
    /\ pc # "fatal"
    /\ ticker = 0
    /\ ticker' = 1
    /\ UNCHANGED <<fs, now, timeTxt, errorLog, pc, processStart, lastRun, filesInInputPath,
                   filesInOutputPath, inFilesMap, i, runs, events, hist, config,
                   outFilesMap, mainPc, active>>

\* part_000 lines 125-141
timerOpenLog(ok) ==
    /\ OpenLog(ok)
    /\ outFilesMap' = MapByRel(OutputPath, filesInOutputPath)
    /\ UNCHANGED <<config, ticker, mainPc, active>>

\* part_000 lines 159-176, one iteration of the loop over filesInInputPath
timerCopyStep(d, mkOk, cp) ==
    /\ pc = "copy"
    /\ i <= Len(filesInInputPath)
    /\ LET input == filesInInputPath[i]
           relativePath == Rel(InputPath, input.Location)
           source == Join(InputPath, relativePath)
           destination == Join(OutputPath, relativePath)
           skip == /\ relativePath \in DOMAIN outFilesMap
                   /\ OutputNewer(outFilesMap[relativePath], input)
           c == createIfNotExist(fs, Dir(destination), mkOk)
           opened == cp # "fail" /\ CanCopy(c.fs, source, destination)
           copied == opened /\ cp = "ok"
       IN /\ Elapse(d)
          /\ d > 0 => ~skip /\ ~c.exit /\ opened
          /\ ~mkOk => ~skip /\ StatNotExist(fs, Dir(destination))
          /\ cp # "ok" => /\ ~skip
                          /\ mkOk
                          /\ CanCopy(c.fs, source, destination)
          /\ Fault(Cost(~mkOk) + Cost(cp # "ok"))
          /\ IF skip
             THEN /\ i' = i + 1
                  /\ UNCHANGED <<fs, errorLog, pc, hist>>
             ELSE IF c.exit
             THEN /\ pc' = "fatal"
                  /\ hist' = [hist EXCEPT !.fatal = "mkdirCopy"]
                  /\ UNCHANGED <<fs, errorLog, i>>
             ELSE /\ i' = i + 1
                  /\ fs' = IF copied THEN copyFile(c.fs, source, destination, now')
                           ELSE IF opened THEN copyFileCut(c.fs, destination, now')
                           ELSE c.fs
                  /\ errorLog' = IF copied THEN errorLog
                                 ELSE Append(errorLog, Line("Failed copying file: ", input.Name))
                  /\ hist' = [hist EXCEPT
                                !.ops = Append(@, Op("copy", source, destination,
                                                 IF IsFileAt(fs, source)
                                                 THEN fs[source].content ELSE 0,
                                                 copied))]
                  /\ UNCHANGED pc
    /\ UNCHANGED <<timeTxt, processStart, lastRun, filesInInputPath,
                   filesInOutputPath, inFilesMap, runs, config, tvars>>

\* part_000 line 177: the loop over filesInInputPath is over, process returns
processReturn ==
    /\ pc = "copy"
    /\ i > Len(filesInInputPath)
    /\ pc' = "done"
    /\ mainPc' = "select"
    /\ active' = active - 1
    /\ hist' = [hist EXCEPT !.completed = processStart]
    /\ UNCHANGED <<fs, now, timeTxt, errorLog, processStart, lastRun, filesInInputPath,
                   filesInOutputPath, inFilesMap, i, runs, events, config,
                   outFilesMap, ticker>>

\* a step of part_000, of its ticker or of the user
NextTimer ==
    \/ \E d \in 0..MaxTime, mkOut \in BOOLEAN, mkTrash \in BOOLEAN : mainLaunch(d, mkOut, mkTrash)
    \/ \E d \in 0..MaxTime, mkOut \in BOOLEAN, mkTrash \in BOOLEAN : mainSelect(d, mkOut, mkTrash)
    \/ Tick
    \/ (\E bad \in BadSets(fs, InputPath) : ScanInput(bad)) /\ UNCHANGED <<config, tvars>>
    \/ (\E bad \in BadSets(fs, OutputPath) : ScanOutput(bad)) /\ UNCHANGED <<config, tvars>>
    \/ \E ok \in BOOLEAN : timerOpenLog(ok)
    \/ (\E mkOk \in BOOLEAN, mvOk \in BOOLEAN : TrashStep(mkOk, mvOk)) /\ UNCHANGED <<config, tvars>>
    \/ TrashDone /\ UNCHANGED <<config, tvars>>
    \/ \E d \in 0..MaxTime, mkOk \in BOOLEAN, cp \in {"ok", "fail", "cut"} : timerCopyStep(d, mkOk, cp)
    \/ processReturn
    \/ (\E d \in 0..MaxTime, rel \in RelPaths : UserWrite(d, rel, 3)) /\ UNCHANGED <<config, tvars>>
    \/ (\E rel \in RelPaths : UserDelete(rel)) /\ UNCHANGED <<config, tvars>>

SpecTimer == Init /\ [][NextTimer]_vars

----------------------------------------------------------------------------
(* Vocabulary of the properties *)

Ops == { hist.ops[k] : k \in 1..Len(hist.ops) }
Moves == { o \in Ops : o.op = "move" }
Copies == { o \in Ops : o.op = "copy" }

RunEnded == pc \in {"done", "fatal"}

\* the regular files of a tree, as paths relative to its root
RelFiles(f, root) == { Rel(root, p) : p \in { q \in DOMAIN f : IsUnder(root, q) /\ ~f[q].isDir } }

\* the root of a scan could not be read: it is missing, not a directory, or
\* its lstat or directory read failed
RootFailed(f, root, bad) == root \in bad \/ ~IsDirAt(f, root)

\* p lies inside a directory named "trash" of the tree at root
InTrashDir(root, p) ==
    \E k \in (Len(root) + 1)..(Len(p) - 1) : p[k] = NameTrash

\* p and every directory between root and p could be read during the walk
Accessible(root, p, bad) ==
    \A q \in Prefixes(p) : IsPrefix(root, q) => q \notin bad

\* where the specification places an orphan: trash/<relDir>/<name>.<stamp><ext>
SpecTrashPath(src, start) ==
    Join(Join(trashPath, Dir(Rel(OutputPath, src))),
         <<TrimSuffix(Base(src), Ext(Base(src))) \o <<".", FormatStamp(start)>>
             \o Ext(Base(src))>>)

----------------------------------------------------------------------------
(* C1..C10 *)

\* C1: every orphan that a run moves is renamed to
\* <outputPath>/trash/<relDir>/<name>.<runTimestamp><ext>, relDir being the
\* orphan's directory relative to the output root; right after the move the
\* original location no longer holds the file and the trash location holds
\* the orphan's content.
C1_OrphanRelocation ==
    /\ \A o \in Moves : o.ok => o.dest = SpecTrashPath(o.src, processStart)
    /\ (pc = "trash" /\ hist.ops # <<>>) =>
          LET o == hist.ops[Len(hist.ops)]
          IN o.ok => /\ ~Exists(fs, o.src)
                     /\ IsFileAt(fs, SpecTrashPath(o.src, processStart))
                     /\ fs[SpecTrashPath(o.src, processStart)].content = o.content

\* C2: when the input root or the output root cannot be read at its scan,
\* the run aborts: it moves nothing, copies nothing and leaves time.txt as
\* it found it.
C2_RootScanFatal ==
    (\/ hist.inScanned /\ RootFailed(hist.inFs, InputPath, hist.inBad)
     \/ hist.outScanned /\ RootFailed(hist.outFs, OutputPath, hist.outBad))
    => /\ pc = "fatal"
       /\ hist.ops = <<>>
       /\ timeTxt = hist.found

\* C3: when the copy of one input file fails, the failure to create its
\* destination directory included, the run still copies every other file of
\* the copy set and ends by writing its start to time.txt.
C3_CopyFailureIsolated ==
    LET failedSrc == { o.src : o \in { c \in Copies : ~c.ok } }
                     \cup (IF hist.fatal = "mkdirCopy"
                           THEN {filesInInputPath[i].Location} ELSE {})
    IN (RunEnded /\ failedSrc # {} /\ hist.fatal # "writeTime")
       => /\ \A k \in 1..Len(filesInInputPath) :
                (filesInInputPath[k].New /\ filesInInputPath[k].Location \notin failedSrc)
                => \E o \in Copies : o.ok /\ o.src = filesInInputPath[k].Location
          /\ timeTxt = FormatRFC3339(processStart)

\* the regular files a scan of root is to return: those that could be read
\* and are not inside a directory named "trash"
Scanned(f, root, bad) ==
    { p \in DOMAIN f : /\ IsUnder(root, p)
                       /\ ~f[p].isDir
                       /\ Accessible(root, p, bad)
                       /\ ~InTrashDir(root, p) }

Locations(files) == { files[k].Location : k \in 1..Len(files) }

\* the run met no failure: both scans read every entry and every move and
\* copy it attempted succeeded
CleanRun ==
    /\ hist.inBad = {} /\ hist.outBad = {}
    /\ IsDirAt(hist.inFs, InputPath)
    /\ \A o \in Ops : o.ok

\* C4: a run that finds time.txt absent or unparsable does not fail,
\* classifies every regular file under the input root new and, no file
\* operation failing, copies each to the same relative path under the
\* output root.  (Stated for the files outside directories named "trash",
\* which no scan enters.)
C4_NoPriorRunFullCopy ==
    (pc = "done" /\ ReadLastRun(hist.found) = Nil /\ CleanRun)
    => \A p \in { q \in DOMAIN hist.inFs : /\ IsUnder(InputPath, q)
                                            /\ ~hist.inFs[q].isDir
                                            /\ ~InTrashDir(InputPath, q) } :
          /\ \E k \in 1..Len(filesInInputPath) :
                filesInInputPath[k].Location = p /\ filesInInputPath[k].New
          /\ \E o \in Copies :
                o.ok /\ o.src = p /\ o.dest = Join(OutputPath, Rel(InputPath, p))

\* C5: of two consecutive completed runs with the same input tree, every
\* file of which was last modified before the first run started, the second
\* copies nothing.
C5_Idempotence ==
    (/\ hist.prevDone
     /\ hist.inScanned
     /\ hist.inFs = hist.prevInFs
     /\ \A p \in DOMAIN hist.inFs :
           ~hist.inFs[p].isDir => hist.inFs[p].modTime < hist.prevStart)
    => Copies = {}

\* C6: no output file is moved to trash while a file exists in the input
\* tree at the same relative path (stated for the runs whose input scan met
\* no access error).
C6_ExactOrphanSet ==
    (hist.inBad = {} /\ IsDirAt(hist.inFs, InputPath))
    => \A o \in Moves :
          o.ok => Rel(OutputPath, o.src) \notin RelFiles(hist.inFs, InputPath)

\* C7: over any sequence of runs, nothing at or under <outputPath>/trash is
\* returned by the output scan, is moved again, or is the destination of a
\* copy, whatever the input tree holds.
C7_TrashExclusion ==
    /\ \A k \in 1..Len(filesInOutputPath) :
          ~IsPrefix(trashPath, filesInOutputPath[k].Location)
    /\ \A o \in Moves : ~IsPrefix(trashPath, o.src)
    /\ \A o \in Copies : ~IsPrefix(trashPath, o.dest)

\* a completed run whose output scan met files in trash, whose input tree
\* holds a directory named trash with a file in it, and which copied a file
C7_Witness ==
    /\ pc = "done"
    /\ \E p \in DOMAIN hist.outFs : IsUnder(trashPath, p) /\ ~hist.outFs[p].isDir
    /\ IsFileAt(hist.inFs, Join(InputPath, <<NameTrash, NameA>>))
    /\ \E o \in Copies : o.ok

\* C8: a scan returns exactly one record for each regular file under its
\* root that could be read and is not inside a directory named "trash", and
\* no other record; a regular file named "trash" and its siblings are
\* returned like any other.
C8_ScannerResult ==
    /\ hist.inScanned =>
          /\ Locations(filesInInputPath) = Scanned(hist.inFs, InputPath, hist.inBad)
          /\ Len(filesInInputPath) = Cardinality(Locations(filesInInputPath))
    /\ hist.outScanned =>
          /\ Locations(filesInOutputPath) = Scanned(hist.outFs, OutputPath, hist.outBad)
          /\ Len(filesInOutputPath) = Cardinality(Locations(filesInOutputPath))

\* C9 as stated: between runs, time.txt is absent or holds the start of the
\* most recent run that finished both loops; a run that exits before its end
\* leaves time.txt as it found it.
C9_Original ==
    /\ (pc \in {"idle", "done", "fatal"})
          => \/ timeTxt = NoFile
             \/ hist.completed # Nil /\ timeTxt = FormatRFC3339(hist.completed)
    /\ (pc \notin {"idle", "done"} /\ hist.fatal # "writeTime") => timeTxt = hist.found

\* C9 as amended: time.txt is absent, or holds the start, to the second, of
\* the most recent run whose write of time.txt succeeded, or holds what a
\* write that failed part-way left; a run that ends normally has written the
\* start it captured before scanning; a run that has not reached its write,
\* or exited before it, leaves time.txt as it found it.
C9_RunState ==
    /\ \/ timeTxt = NoFile
       \/ timeTxt = Garbage /\ (hist.fatal = "writeTime" \/ hist.found = Garbage)
       \/ hist.written # Nil /\ timeTxt = FormatRFC3339(hist.written)
    /\ pc = "done" => /\ timeTxt = FormatRFC3339(processStart)
                      /\ hist.written = processStart
                      /\ hist.completed = processStart
    /\ (pc \notin {"idle", "done"} /\ hist.fatal # "writeTime") => timeTxt = hist.found

\* a run exited before its end, after an earlier run, started in another
\* second, had written time.txt
C9_Witness ==
    /\ pc = "fatal"
    /\ hist.fatal \in {"openLog", "mkdirCopy", "mkdirTrash", "mkdirRoot"}
    /\ hist.prevDone
    /\ timeTxt = FormatRFC3339(hist.prevStart)
    /\ timeTxt # FormatRFC3339(processStart)

\* C10: with a recorded last run T, an input record is new exactly when the
\* file's modification time is after T: not at T, not before T.
C10_DetectionBoundary ==
    (hist.inScanned /\ ReadLastRun(hist.found) # Nil)
    => \A k \in 1..Len(filesInInputPath) :
          filesInInputPath[k].New
          <=> hist.inFs[filesInInputPath[k].Location].modTime
                 > ParseRFC3339(hist.found).date

\* one scan with a file modified exactly at T, not new, and a file modified
\* one tick after T, new
C10_Witness ==
    /\ hist.inScanned
    /\ lastRun # Nil
    /\ \E j, k \in 1..Len(filesInInputPath) :
          /\ filesInInputPath[j].ModTime = lastRun /\ ~filesInInputPath[j].New
          /\ filesInInputPath[k].ModTime = lastRun + 1 /\ filesInInputPath[k].New

----------------------------------------------------------------------------
(* C11..C20 *)

\* the output files, as the output scan saw them, whose relative path the
\* input scan returned with a record that is not flagged new
Mirrored ==
    { p \in DOMAIN hist.outFs :
         /\ IsUnder(OutputPath, p)
         /\ ~hist.outFs[p].isDir
         /\ \E k \in 1..Len(filesInInputPath) :
               /\ Rel(InputPath, filesInInputPath[k].Location) = Rel(OutputPath, p)
               /\ ~filesInInputPath[k].New }

\* C11: an output file whose relative path is in the input scan with a
\* record that is not flagged new is left untouched by the run: it is not
\* moved, it is not the destination of a copy, and it keeps its content and
\* its modification time.
C11_MirroredFrame ==
    (hist.inScanned /\ hist.outScanned)
    => \A p \in Mirrored :
          /\ IsFileAt(fs, p)
          /\ fs[p] = hist.outFs[p]
          /\ \A o \in Moves : o.src # p
          /\ \A o \in Copies : o.dest # p

\* a completed run that left two mirrored files alone, one of them in a
\* subdirectory, and copied another file
C11_Witness ==
    /\ pc = "done"
    /\ \E p, q \in Mirrored : Len(p) < Len(q)
    /\ \E o \in Copies : o.ok

\* C12: under the timer loop, whatever the timing of the ticks and however
\* long a run lasts, at most one call of process is in progress, and a call
\* begins only when none is.
C12_NoOverlap ==
    /\ active \in {0, 1}
    /\ active = 1 <=> mainPc = "process"

\* a tick arrived while the second call of process was in progress, the
\* first having returned
C12_Witness ==
    /\ runs = 2
    /\ active = 1
    /\ pc \in {"trash", "copy"}
    /\ ticker = 1

\* the input records of the scan in progress whose file was modified after
\* the instant the previous run started
ModifiedSincePrevStart ==
    { k \in 1..Len(filesInInputPath) :
         hist.inFs[filesInInputPath[k].Location].modTime > hist.prevStart }

\* C13: after a run that ended normally, the next run classifies new every
\* input file it scans whose modification time is after the instant the
\* earlier run started, whenever the modification happened; and a next run
\* that reaches the end of its copy loop has attempted the copy of each.
C13_NoMissedModification ==
    (hist.prevDone /\ hist.inScanned)
    => \A k \in ModifiedSincePrevStart :
          /\ filesInInputPath[k].New
          /\ pc \in {"write", "done"}
                => \E o \in Copies : o.src = filesInInputPath[k].Location

\* the next run copied a file that was written after the earlier run had
\* scanned the input, in the second in which that run started
C13_Witness ==
    /\ hist.prevDone
    /\ pc = "done"
    /\ \E k \in ModifiedSincePrevStart :
          LET p == filesInInputPath[k].Location
          IN /\ hist.inFs[p].modTime \div SubSec = hist.prevStart \div SubSec
             /\ (p \notin DOMAIN hist.prevInFs \/ hist.prevInFs[p] # hist.inFs[p])
             /\ \E o \in Copies : o.ok /\ o.src = p /\ o.content = hist.inFs[p].content

\* the output records of the run that are orphans: their relative path is
\* not a key of inFilesMap
Orphans ==
    { k \in 1..Len(filesInOutputPath) :
         Rel(OutputPath, filesInOutputPath[k].Location) \notin DOMAIN inFilesMap }

\* C14: when the move of an orphan to trash fails, the orphan's file name
\* is appended to the error log and the run goes on: it does not exit in
\* the trash loop, it attempts the move of every other orphan, its copy
\* loop attempts the copy of every record flagged new, and it ends by
\* writing its start to time.txt.  (The run can still exit for a failure of
\* its own in the copy loop or in the write of time.txt.)
C14_MoveFailureIsolated ==
    LET failed == { o \in Moves : ~o.ok }
    IN failed # {} =>
          /\ hist.fatal \in {"", "mkdirCopy", "writeTime"}
          /\ \A o \in failed :
                \E n \in 1..Len(errorLog) :
                   errorLog[n] = Line("Failed moving file to trash: ", Base(o.src))
          /\ pc # "trash" =>
                \A k \in Orphans :
                   \E o \in Moves : o.src = filesInOutputPath[k].Location
          /\ pc \in {"write", "done"} =>
                \A k \in 1..Len(filesInInputPath) :
                   filesInInputPath[k].New
                   => \E o \in Copies : o.src = filesInInputPath[k].Location
          /\ pc \in {"copy", "write", "done"} => hist.fatal = ""
          /\ pc = "done" => timeTxt = FormatRFC3339(processStart)

\* a run ended normally after the move of its first orphan failed: the
\* second orphan is in trash and the files of the input are copied
C14_Witness ==
    /\ pc = "done"
    /\ hist.ops # <<>>
    /\ hist.ops[1].op = "move" /\ ~hist.ops[1].ok
    /\ \E o \in Moves : o.ok /\ IsFileAt(fs, o.dest)
    /\ \E o \in Copies : o.ok

\* C15: a move to trash never replaces a file: its destination held no file
\* when the run scanned the output tree and is the destination of no
\* earlier move of the run, two orphans of the same base name in different
\* subdirectories included; and every file a run moved is in trash with
\* the content it had.
C15_ArchiveKept ==
    /\ \A o \in Moves :
          o.ok => /\ ~IsFileAt(hist.outFs, o.dest)
                  /\ IsFileAt(fs, o.dest)
                  /\ fs[o.dest].content = o.content
    /\ \A j, k \in 1..Len(hist.ops) :
          (/\ j < k
           /\ hist.ops[j].op = "move" /\ hist.ops[j].ok
           /\ hist.ops[k].op = "move" /\ hist.ops[k].ok)
          => hist.ops[j].dest # hist.ops[k].dest

\* the relative paths of the regular files of the tree at root that are not
\* inside a directory named "trash"
RelFilesOutsideTrash(f, root) ==
    { Rel(root, p) : p \in { q \in DOMAIN f : /\ IsUnder(root, q)
                                               /\ ~f[q].isDir
                                               /\ ~InTrashDir(root, q) } }

\* C16: after a run that ended normally, met no failure and during which
\* neither tree was changed from outside, the regular files of the output
\* tree outside trash have the relative paths of the regular files of the
\* input tree outside directories named "trash".
C16_MirrorAfterCleanRun ==
    (pc = "done" /\ CleanRun /\ SubTree(fs, InputPath) = hist.inFs)
    => RelFilesOutsideTrash(fs, OutputPath) = RelFilesOutsideTrash(fs, InputPath)

\* C17: when the copy of an input file failed in a run that ended normally,
\* and the file has not changed since that run scanned it, the next run, if
\* it meets no failure, copies the file.
C17_FailedCopyRetried ==
    (hist.prevDone /\ pc = "done" /\ CleanRun)
    => \A p \in hist.prevFailed :
          (IsFileAt(hist.inFs, p) /\ IsFileAt(hist.prevInFs, p)
           /\ hist.inFs[p] = hist.prevInFs[p])
          => \E o \in Copies : o.ok /\ o.src = p

\* the regular files under the input root, with their content and
\* modification time
InputFiles(f) ==
    [p \in { q \in DOMAIN f : IsUnder(InputPath, q) /\ ~f[q].isDir } |-> f[p]]

\* C18: whatever the configuration (the roots disjoint, equal, or one
\* inside the other), no step of a run moves, truncates, overwrites or
\* creates a file under the input root.  (A step of the run changes pc or
\* hist, a change by the user changes neither.)
C18_OneWay ==
    [][(pc' # pc \/ hist' # hist) => InputFiles(fs') = InputFiles(fs)]_vars

\* the phase an operation on a file belongs to
PhaseOf(o) == IF o.op = "move" THEN 1 ELSE IF o.op = "copy" THEN 2 ELSE 3

\* C19: within a run, lastRun is loaded and both scans are complete before
\* any file is moved or copied; the move of every orphan is attempted
\* before the first copy; time.txt is written only after the last copy
\* attempt, once; the operations follow one another in that order.
C19_PhaseOrder ==
    /\ (pc \notin {"idle"} /\ hist.fatal # "mkdirRoot")
          => lastRun = ReadLastRun(hist.found)
    /\ pc \in {"scanIn", "scanOut", "openLog"} => hist.ops = <<>>
    /\ hist.ops # <<>> => hist.inScanned /\ hist.outScanned
    /\ \A j, k \in 1..Len(hist.ops) :
          j < k => /\ PhaseOf(hist.ops[j]) <= PhaseOf(hist.ops[k])
                   /\ PhaseOf(hist.ops[j]) # 3
    /\ (pc = "copy" \/ Copies # {})
          => \A k \in Orphans : \E o \in Moves : o.src = filesInOutputPath[k].Location
    /\ (pc = "done" \/ \E o \in Ops : o.op = "write")
          => \A k \in 1..Len(filesInInputPath) :
                filesInInputPath[k].New
                => \E o \in Copies : o.src = filesInInputPath[k].Location

\* a run that moved two orphans, then copied a file, then wrote time.txt
C19_Witness ==
    /\ pc = "done"
    /\ Len(hist.ops) = 4
    /\ hist.ops[1].op = "move" /\ hist.ops[2].op = "move"
    /\ hist.ops[3].op = "copy" /\ hist.ops[4].op = "write"
    /\ \A k \in 1..4 : hist.ops[k].ok

\* the input records the copy loop of the run is through with
Processed ==
    IF pc = "done" THEN 1..Len(filesInInputPath)
    ELSE IF pc = "copy" \/ (pc = "fatal" /\ hist.fatal = "mkdirCopy") THEN 1..(i - 1)
    ELSE {}

\* the output scan holds a file at the relative path of the input record
\* k, modified strictly after the input file
NewerInOutput(k) ==
    \E j \in 1..Len(filesInOutputPath) :
       /\ Rel(OutputPath, filesInOutputPath[j].Location)
             = Rel(InputPath, filesInInputPath[k].Location)
       /\ filesInOutputPath[j].ModTime > filesInInputPath[k].ModTime

CopyAttempted(k) ==
    \E o \in Copies :
       /\ o.src = filesInInputPath[k].Location
       /\ o.dest = Join(OutputPath, Rel(InputPath, filesInInputPath[k].Location))

====
